---- MODULE Spec2Model ----
(***************************************************************************)
(* The streaming notebook spark_streaming.ipynb as a state machine.        *)
(*                                                                         *)
(* Two threads of the one driver process share the global set              *)
(* affected_entities:                                                      *)
(*   - the streaming thread, on which the query started by                 *)
(*     writeStream.foreachBatch(process_streaming_batch).start() calls     *)
(*     process_streaming_batch once per micro-batch, one micro-batch at a  *)
(*     time;                                                               *)
(*   - the notebook thread, which runs the cells from top to bottom:       *)
(*     start the query, display affected_entities, the redo loop, the      *)
(*     search, spark.stop().                                               *)
(* The Senzing engine (sz_engine) is the environment: each call returns a  *)
(* with-info document or raises, and may add units to its redo queue.      *)
(*                                                                         *)
(* A step of the model is one statement that another thread can observe    *)
(* (a call of the engine going out, its answer coming back, the update of  *)
(* the set) together with the thread-local statements that follow it.      *)
(* The notebook has no lock and waits for nothing: the only ordering       *)
(* between the two threads is the one the cell order gives.                *)
(***************************************************************************)
EXTENDS Integers, Sequences, FiniteSets

\* ------------------------------------------------------------------ bounds
MaxBatches == 2
MaxBatchLen == 2
NumEntities == 2
MaxInfoLen == 2
MaxRedo == 2

\* ------------------------------------------------------------ value spaces
None == "None"

\* What get_redo_record returns when the engine has no redo unit: a value
\* that `not redo_record` takes for false. Redo units are numbered from 1.
NoRedo == 0

\* The value of info while no answer is held.
NoInfo == [AFFECTED_ENTITIES |-> << >>]

ENTITY_IDS == 1..NumEntities

\* The schema of the streaming dataframe (three of its 32 string fields).
customers_schema == {"DATA_SOURCE", "RECORD_ID", "PRIMARY_NAME_LAST"}

\* The RECORD_IDs of the files in data/streaming, in the order the file
\* source reads them. Each file holds one record and is read once.
RecordIds ==
    << "1001", "1002", "1003", "1004", "1005", "1006", "1007", "1008",
       "1009", "1010", "1011", "1012", "1013", "1014", "1015", "1016" >>

\* The k-th row the source delivers. Every field of the schema is nullable
\* and a field its file lacks is null in the row; every file written by
\* create_streaming_files holds a RECORD_ID, and every record of the data set
\* holds DATA_SOURCE, so these two are never null.
Row(k) ==
    [ DATA_SOURCE |-> "CUSTOMERS",
      RECORD_ID |-> RecordIds[k],
      PRIMARY_NAME_LAST |-> IF k % 2 = 0 THEN None ELSE "Smith" ]

SeqsUpTo(S, n) == UNION { [1..k -> S] : k \in 0..n }

\* The micro-batch of the next n rows after the first `sofar` (n may be 0).
Batch(sofar, n) == [ k \in 1..n |-> Row(sofar + k) ]

\* The with-info documents the engine may answer with, as parsed by
\* json.loads: AFFECTED_ENTITIES is a list of objects with an ENTITY_ID, and
\* an identifier may be listed more than once. The lists are taken in
\* ascending order of identifier: nothing in the notebook reads the order.
Infos ==
    { [AFFECTED_ENTITIES |-> l] :
        l \in { m \in SeqsUpTo({ [ENTITY_ID |-> e] : e \in ENTITY_IDS }, MaxInfoLen) :
                   \A k \in 1..(Len(m) - 1) : m[k].ENTITY_ID <= m[k + 1].ENTITY_ID } }

Range(s) == { s[k] : k \in DOMAIN s }

\* The entity identifiers an answer of the engine names.
InfoEntities(info) ==
    { info.AFFECTED_ENTITIES[k].ENTITY_ID : k \in DOMAIN info.AFFECTED_ENTITIES }

\* ------------------------------------------------------------------- state
VARIABLES
    affected_entities,  \* the global set
    spark,              \* "running" | "stopped"
    streaming_query,    \* "none" | "active" | "failed" | "stopped"
    delivered,          \* the micro-batches handed to foreachBatch so far
    pc_b,               \* position of the streaming thread
    row_i,              \* rows of the current batch taken from the iterator
    record,             \* process_streaming_batch's local: the record dict
    info_b,             \* process_streaming_batch's local: info
    ids_b,              \* what an update(...) that has begun has still to insert
    cell,               \* position of the notebook thread
    redo_record,        \* the redo cell's redo_record
    info_m,             \* the redo cell's info
    ids_m,              \* what an update(...) that has begun has still to insert
    redo_queue,         \* the engine's redo queue
    redo_made,          \* redo units the engine has created so far
    add_calls,          \* the add_record calls made, with their state
    redo_calls,         \* the process_redo_record calls made, with state
    gets,               \* the results of the get_redo_record calls made
    returned,           \* the identifiers in the answers received so far
    merged,             \* the identifiers of the answers whose update is done
    printed,            \* the lines process_streaming_batch printed
    printed_m           \* the lines the notebook cells printed, by kind

vars == << affected_entities, spark, streaming_query, delivered, pc_b, row_i,
           record, info_b, ids_b, cell, redo_record, info_m, ids_m,
           redo_queue, redo_made, add_calls, redo_calls, gets, returned,
           merged, printed, printed_m >>

shared_vars == << affected_entities, spark, streaming_query, redo_queue,
                 redo_made, returned, merged >>
batch_vars == << delivered, pc_b, row_i, record, info_b, ids_b, add_calls,
                printed >>
main_vars == << cell, redo_record, info_m, ids_m, redo_calls, gets,
               printed_m >>

\* The batch_df and batch_id of the invocation in progress (or last made).
batch_id == Len(delivered) - 1
batch_df == delivered[Len(delivered)]

\* ----------------------------------------------------------- pure helpers

\* A faulty get_affected_entities: the first affected entity only.
get_affected_entities_first(info) ==
    IF Len(info.AFFECTED_ENTITIES) = 0 THEN << >>
    ELSE << info.AFFECTED_ENTITIES[1].ENTITY_ID >>

\* [entity['ENTITY_ID'] for entity in info['AFFECTED_ENTITIES']]
get_affected_entities(info) ==
    [ k \in 1..Len(info.AFFECTED_ENTITIES) |-> info.AFFECTED_ENTITIES[k].ENTITY_ID ]

\* A faulty update: the set is replaced by the list (an assignment).
set_update_overwrite(s, l) == Range(l)

\* set.update(list): every element of the list is added to the set.
set_update(s, l) == s \cup Range(l)

\* A faulty update: other threads run between two insertions.
update_step_one(l) == IF Len(l) = 0 THEN 0 ELSE 1

\* How many elements of its argument one update(...) call inserts before
\* another thread can run: the call is a single built-in call on a set and a
\* list of integers, which the interpreter does not interleave with other
\* threads, so all of them.
update_step(l) == Len(l)

\* {k: v for k, v in row.asDict().items() if v is not None}
record_of(row) ==
    [ k \in { f \in customers_schema : row[f] # None } |-> row[k] ]

\* The engine's redo queue after a call that may have created one unit.
Enqueued(q, made, n) == IF n = 1 THEN Append(q, made + 1) ELSE q

\* A log of calls with the state of its last call changed.
SetLast(log, st) == [ log EXCEPT ![Len(log)].st = st ]

\* The number of rows in the micro-batches d.
RECURSIVE RowsIn(_)
RowsIn(d) == IF d = << >> THEN 0 ELSE Len(Head(d)) + RowsIn(Tail(d))

\* -------------------------------------------------------------------- Init
Init ==
    /\ affected_entities = {}
    /\ spark = "running"
    /\ streaming_query = "none"
    /\ delivered = << >>
    /\ pc_b = "idle"
    /\ row_i = 0
    /\ record = << >>
    /\ info_b = NoInfo
    /\ ids_b = << >>
    /\ cell = "start"
    /\ redo_record = NoRedo
    /\ info_m = NoInfo
    /\ ids_m = << >>
    /\ redo_queue = << >>
    /\ redo_made = 0
    /\ add_calls = << >>
    /\ redo_calls = << >>
    /\ gets = << >>
    /\ returned = {}
    /\ merged = {}
    /\ printed = << >>
    /\ printed_m = << >>

\* ------------------------------------------------- the streaming thread
\* The query hands the next micro-batch to foreachBatch's function. One query
\* runs its micro-batches one after the other; a query that has failed or
\* been stopped runs no more of them.
NewBatch ==
    /\ streaming_query = "active"
    /\ pc_b = "idle"
    /\ Len(delivered) < MaxBatches
    /\ \E n \in 0..MaxBatchLen :
         delivered' = Append(delivered, Batch(RowsIn(delivered), n))
    /\ pc_b' = "count"
    /\ row_i' = 0
    /\ UNCHANGED << record, info_b, ids_b, add_calls, printed >>
    /\ UNCHANGED << shared_vars, main_vars >>

\* A faulty CountCheck: the line is printed before the count is checked.
CountCheck_prints_first ==
    /\ pc_b = "count"
    /\ printed' = Append(printed, << "Processing batch", batch_id, Len(batch_df) >>)
    /\ pc_b' = IF Len(batch_df) = 0 THEN "idle" ELSE "iter"
    /\ UNCHANGED << delivered, row_i, record, info_b, ids_b, add_calls >>
    /\ UNCHANGED << shared_vars, main_vars >>

\* if batch_df.count() == 0: return
\* print(f"Processing batch {batch_id} with {batch_df.count()} records")
CountCheck ==
    /\ pc_b = "count"
    /\ IF Len(batch_df) = 0
       THEN /\ pc_b' = "idle"
            /\ UNCHANGED printed
       ELSE /\ printed' = Append(printed,
                                 << "Processing batch", batch_id, Len(batch_df) >>)
            /\ pc_b' = "iter"
    /\ UNCHANGED << delivered, row_i, record, info_b, ids_b, add_calls >>
    /\ UNCHANGED << shared_vars, main_vars >>

\* The entry of an add_record call in the log of calls.
AddRecordEntry(rec, pos) ==
    [ batch |-> batch_id, pos |-> pos, data_source |-> rec["DATA_SOURCE"],
      arg |-> rec["RECORD_ID"], st |-> "awaiting" ]

\* A faulty NextRow: the iteration steps over a row.
NextRow_skips ==
    /\ pc_b = "iter"
    /\ IF row_i >= Len(batch_df)
       THEN /\ pc_b' = "idle"
            /\ UNCHANGED << row_i, record, add_calls >>
       ELSE /\ row_i' = IF row_i + 2 <= Len(batch_df) THEN row_i + 2 ELSE row_i + 1
            /\ record' = record_of(batch_df[row_i'])
            /\ add_calls' = Append(add_calls, AddRecordEntry(record', row_i'))
            /\ pc_b' = "awaiting"
    /\ UNCHANGED << delivered, info_b, ids_b, printed >>
    /\ UNCHANGED << shared_vars, main_vars >>

\* for row in batch_df.rdd.toLocalIterator(): the end of the loop and of the
\* function, or the next row in delivery order; then the record dict is built
\* and sz_engine.add_record(record['DATA_SOURCE'], record['RECORD_ID'], record,
\* SzEngineFlags.SZ_WITH_INFO) is called: the request goes out and the thread
\* waits for the answer.
NextRow ==
    /\ pc_b = "iter"
    /\ IF row_i = Len(batch_df)
       THEN /\ pc_b' = "idle"
            /\ UNCHANGED << row_i, record, add_calls >>
       ELSE /\ row_i' = row_i + 1
            /\ record' = record_of(batch_df[row_i + 1])
            /\ add_calls' = Append(add_calls, AddRecordEntry(record', row_i'))
            /\ pc_b' = "awaiting"
    /\ UNCHANGED << delivered, info_b, ids_b, printed >>
    /\ UNCHANGED << shared_vars, main_vars >>

\* info = <the engine's answer>; the engine may have queued a redo unit.
AddRecordReturn ==
    /\ pc_b = "awaiting"
    /\ \E i \in Infos :
         /\ info_b' = i
         /\ returned' = returned \cup InfoEntities(i)
    /\ \E n \in 0..1 :
         /\ n = 1 => redo_made < MaxRedo
         /\ redo_queue' = Enqueued(redo_queue, redo_made, n)
         /\ redo_made' = redo_made + n
    /\ pc_b' = "merge"
    /\ UNCHANGED << delivered, row_i, record, ids_b, add_calls, printed >>
    /\ UNCHANGED << affected_entities, spark, streaming_query, merged >>
    /\ UNCHANGED main_vars

\* A faulty AddRecordRaise: the exception is caught and the loop goes on.
AddRecordRaise_skips ==
    /\ pc_b = "awaiting"
    /\ add_calls' = SetLast(add_calls, "failed")
    /\ pc_b' = "iter"
    /\ UNCHANGED << delivered, row_i, record, info_b, ids_b, printed >>
    /\ UNCHANGED << shared_vars, main_vars >>

\* add_record raises: nothing in process_streaming_batch catches it, so it
\* leaves the loop and the function, and the query that called it fails.
AddRecordRaise ==
    /\ pc_b = "awaiting"
    /\ add_calls' = SetLast(add_calls, "failed")
    /\ pc_b' = "raised"
    /\ streaming_query' = IF streaming_query = "active" THEN "failed"
                          ELSE streaming_query
    /\ UNCHANGED << delivered, row_i, record, info_b, ids_b, printed >>
    /\ UNCHANGED << affected_entities, spark, redo_queue, redo_made, returned,
                    merged >>
    /\ UNCHANGED main_vars

\* affected_entities.update(get_affected_entities(info)), and once the update
\* is done print(f"Added record {record['RECORD_ID']}"). info is not read
\* again. ids_b is what an update that has begun has still to insert.
UpdateBatch ==
    /\ pc_b \in {"merge", "update"}
    /\ LET todo == IF pc_b = "merge" THEN get_affected_entities(info_b) ELSE ids_b
           n == update_step(todo)
       IN
         /\ affected_entities' = set_update(affected_entities, SubSeq(todo, 1, n))
         /\ ids_b' = SubSeq(todo, n + 1, Len(todo))
         /\ IF n = Len(todo)
            THEN /\ add_calls' = SetLast(add_calls, "merged")
                 /\ merged' = merged \cup InfoEntities(info_b)
                 /\ info_b' = NoInfo
                 /\ printed' = Append(printed, << "Added record", record["RECORD_ID"] >>)
                 /\ pc_b' = "iter"
            ELSE /\ pc_b' = "update"
                 /\ UNCHANGED << add_calls, merged, info_b, printed >>
    /\ UNCHANGED << delivered, row_i, record >>
    /\ UNCHANGED << spark, streaming_query, redo_queue, redo_made, returned >>
    /\ UNCHANGED main_vars

\* --------------------------------------------------- the notebook thread
\* streaming_query = streaming_df.writeStream.foreachBatch(...) ... .start()
StartQuery ==
    /\ cell = "start"
    /\ streaming_query' = "active"
    /\ cell' = "display"
    /\ UNCHANGED << redo_record, info_m, ids_m, redo_calls, gets,
                    printed_m >>
    /\ UNCHANGED << affected_entities, spark, redo_queue, redo_made, returned,
                    merged >>
    /\ UNCHANGED batch_vars

\* The cell `affected_entities`: the set is read as it is now, and shown.
DisplayCell ==
    /\ cell = "display"
    /\ printed_m' = Append(printed_m, "affected_entities")
    /\ cell' = "redo_get"
    /\ UNCHANGED << redo_record, info_m, ids_m, redo_calls, gets >>
    /\ UNCHANGED << shared_vars, batch_vars >>

\* A faulty GetRedoRecord: the loop ends after one unit, empty or not.
GetRedoRecord_fixed_count ==
    /\ cell = "redo_get"
    /\ LET r == IF redo_queue = << >> THEN NoRedo ELSE Head(redo_queue) IN
         /\ gets' = Append(gets, r)
         /\ redo_record' = r
         /\ redo_queue' = IF redo_queue = << >> THEN redo_queue ELSE Tail(redo_queue)
         /\ cell' = IF r = NoRedo \/ Len(redo_calls) >= 1 THEN "search" ELSE "redo_call"
    /\ UNCHANGED << info_m, ids_m, redo_calls, printed_m >>
    /\ UNCHANGED << affected_entities, spark, streaming_query, redo_made,
                    returned, merged >>
    /\ UNCHANGED batch_vars

\* redo_record = sz_engine.get_redo_record(); if not redo_record: break
GetRedoRecord ==
    /\ cell = "redo_get"
    /\ LET r == IF redo_queue = << >> THEN NoRedo ELSE Head(redo_queue) IN
         /\ gets' = Append(gets, r)
         /\ redo_record' = r
         /\ redo_queue' = IF redo_queue = << >> THEN redo_queue ELSE Tail(redo_queue)
         /\ cell' = IF r = NoRedo THEN "search" ELSE "redo_call"
    /\ UNCHANGED << info_m, ids_m, redo_calls, printed_m >>
    /\ UNCHANGED << affected_entities, spark, streaming_query, redo_made,
                    returned, merged >>
    /\ UNCHANGED batch_vars

\* get_redo_record raises: the cell ends with the exception and no later
\* cell is run.
GetRedoRaise ==
    /\ cell = "redo_get"
    /\ cell' = "raised"
    /\ UNCHANGED << redo_record, info_m, ids_m, redo_calls, gets,
                    printed_m >>
    /\ UNCHANGED << shared_vars, batch_vars >>

\* sz_engine.process_redo_record(redo_record, flags=SzEngineFlags.SZ_WITH_INFO):
\* the request goes out and the thread waits for the answer.
ProcessRedoCall ==
    /\ cell = "redo_call"
    /\ redo_calls' = Append(redo_calls, [ arg |-> redo_record, st |-> "awaiting" ])
    /\ cell' = "redo_await"
    /\ UNCHANGED << redo_record, info_m, ids_m, gets, printed_m >>
    /\ UNCHANGED << shared_vars, batch_vars >>

\* info = <the engine's answer>; processing a unit may queue a further one.
ProcessRedoReturn ==
    /\ cell = "redo_await"
    /\ \E i \in Infos :
         /\ info_m' = i
         /\ returned' = returned \cup InfoEntities(i)
    /\ \E n \in 0..1 :
         /\ n = 1 => redo_made < MaxRedo
         /\ redo_queue' = Enqueued(redo_queue, redo_made, n)
         /\ redo_made' = redo_made + n
    /\ cell' = "redo_merge"
    /\ UNCHANGED << redo_record, ids_m, redo_calls, gets, printed_m >>
    /\ UNCHANGED << affected_entities, spark, streaming_query, merged >>
    /\ UNCHANGED batch_vars

\* A faulty ProcessRedoRaise: the exception is caught and the loop goes on.
ProcessRedoRaise_skips ==
    /\ cell = "redo_await"
    /\ redo_calls' = SetLast(redo_calls, "failed")
    /\ cell' = "redo_get"
    /\ UNCHANGED << redo_record, info_m, ids_m, gets, printed_m >>
    /\ UNCHANGED << shared_vars, batch_vars >>

\* process_redo_record raises: nothing in the loop catches it, so the loop
\* and the cell end with the exception and no later cell is run.
ProcessRedoRaise ==
    /\ cell = "redo_await"
    /\ redo_calls' = SetLast(redo_calls, "failed")
    /\ cell' = "raised"
    /\ UNCHANGED << redo_record, info_m, ids_m, gets, printed_m >>
    /\ UNCHANGED << shared_vars, batch_vars >>

\* affected_entities.update(get_affected_entities(info)), and once the update
\* is done print(info). info is not read again before the next answer
\* replaces it. ids_m is what an update that has begun has still to insert.
UpdateRedo ==
    /\ cell \in {"redo_merge", "redo_update"}
    /\ LET todo == IF cell = "redo_merge" THEN get_affected_entities(info_m) ELSE ids_m
           n == update_step(todo)
       IN
         /\ affected_entities' = set_update(affected_entities, SubSeq(todo, 1, n))
         /\ ids_m' = SubSeq(todo, n + 1, Len(todo))
         /\ IF n = Len(todo)
            THEN /\ redo_calls' = SetLast(redo_calls, "merged")
                 /\ merged' = merged \cup InfoEntities(info_m)
                 /\ info_m' = NoInfo
                 /\ printed_m' = Append(printed_m, "info")
                 /\ cell' = "redo_get"
            ELSE /\ cell' = "redo_update"
                 /\ UNCHANGED << redo_calls, merged, info_m, printed_m >>
    /\ UNCHANGED << redo_record, gets >>
    /\ UNCHANGED << spark, streaming_query, redo_queue, redo_made, returned >>
    /\ UNCHANGED batch_vars

\* search_result = sz_engine.search_by_attributes(...); print(...)
SearchCell ==
    /\ cell = "search"
    /\ printed_m' = Append(printed_m, "search_result")
    /\ cell' = "stop"
    /\ UNCHANGED << redo_record, info_m, ids_m, redo_calls, gets >>
    /\ UNCHANGED << shared_vars, batch_vars >>

\* spark.stop(): the session ends and with it the query. The notebook thread
\* waits for nothing before it: a call of process_streaming_batch that is
\* running on the streaming thread is where it is.
SparkStop ==
    /\ cell = "stop"
    /\ spark' = "stopped"
    /\ streaming_query' = IF streaming_query = "active" THEN "stopped"
                          ELSE streaming_query
    /\ cell' = "done"
    /\ UNCHANGED << redo_record, info_m, ids_m, redo_calls, gets,
                    printed_m >>
    /\ UNCHANGED << affected_entities, redo_queue, redo_made, returned, merged >>
    /\ UNCHANGED batch_vars

\* ------------------------------------------------------------ specification
Next ==
    \/ NewBatch
    \/ CountCheck
    \/ NextRow
    \/ AddRecordReturn
    \/ AddRecordRaise
    \/ UpdateBatch
    \/ StartQuery
    \/ DisplayCell
    \/ GetRedoRecord
    \/ GetRedoRaise
    \/ ProcessRedoCall
    \/ ProcessRedoReturn
    \/ ProcessRedoRaise
    \/ UpdateRedo
    \/ SearchCell
    \/ SparkStop

Spec == Init /\ [][Next]_vars

\* ------------------------------------------------------------- properties
\* The add_record calls made for micro-batch b, in the order made.
BatchCalls(b) == SelectSeq(add_calls, LAMBDA e : e.batch = b)

\* Micro-batch b's call of process_streaming_batch has returned normally.
Completed(b) == b < batch_id \/ pc_b = "idle"

\* No thread holds an answer whose identifiers it has not finished merging.
Quiescent ==
    /\ pc_b \notin {"merge", "update"}
    /\ cell \notin {"redo_merge", "redo_update"}

\* The results of get_redo_record that were redo units.
UnitsYielded == SelectSeq(gets, LAMBDA r : r # NoRedo)

\* C1: whenever no answer is waiting to be merged (after any number of
\* completed calls of process_streaming_batch and of redo iterations),
\* affected_entities is exactly the set of the identifiers named by the
\* answers of the add_record and process_redo_record calls made so far,
\* however often an identifier was named.
C1_UnionOfReturned == Quiescent => affected_entities = returned

C1_Witness ==
    /\ Quiescent
    /\ pc_b = "idle"
    /\ cell = "redo_get"
    /\ \E k \in DOMAIN add_calls : add_calls[k].st = "merged"
    /\ \E k \in DOMAIN redo_calls : redo_calls[k].st = "merged"
    /\ affected_entities = ENTITY_IDS

\* C2: the add_record calls of one micro-batch are made one per row, in
\* delivery order, each only after the call before it was answered and
\* merged; a call of process_streaming_batch that returns has made exactly
\* one call per row of its batch.
C2_OneCallPerRowInOrder ==
    \A b \in 0..batch_id :
        LET cs == BatchCalls(b)
            rows == delivered[b + 1]
        IN  /\ Len(cs) <= Len(rows)
            /\ \A k \in 1..Len(cs) :
                 /\ cs[k].pos = k
                 /\ cs[k].arg = rows[k].RECORD_ID
                 /\ k < Len(cs) => cs[k].st = "merged"
            /\ Completed(b) =>
                 /\ Len(cs) = Len(rows)
                 /\ \A k \in 1..Len(cs) : cs[k].st = "merged"

C2_Witness ==
    /\ delivered # << >>
    /\ pc_b = "idle"
    /\ Len(batch_df) >= 2
    /\ Len(BatchCalls(batch_id)) = Len(batch_df)

\* C3: an add_record call that failed is the last add_record call made: no
\* call follows it for a later row, for the same row again or for a later
\* batch, process_streaming_batch has ended with the exception and the query
\* that called it no longer runs.
C3_BatchHaltsAtFailure ==
    \A k \in DOMAIN add_calls :
        add_calls[k].st = "failed" =>
            /\ k = Len(add_calls)
            /\ pc_b = "raised"
            /\ streaming_query \in {"failed", "stopped"}

C3_Witness ==
    /\ pc_b = "raised"
    /\ add_calls # << >>
    /\ add_calls[Len(add_calls)].st = "failed"
    /\ add_calls[Len(add_calls)].pos < Len(batch_df)

\* C4: the redo loop calls process_redo_record once for each unit
\* get_redo_record yields, in the order yielded; only the last result of
\* get_redo_record is ever empty, and a loop that has ended without an
\* exception ended on that empty result with every unit yielded processed
\* and merged.
C4_DrainEndsOnEmpty ==
    /\ \A k \in 1..(Len(gets) - 1) : gets[k] # NoRedo
    /\ Len(redo_calls) <= Len(UnitsYielded)
    /\ \A k \in DOMAIN redo_calls : redo_calls[k].arg = UnitsYielded[k]
    /\ cell \in {"search", "stop", "done"} =>
         /\ gets # << >>
         /\ gets[Len(gets)] = NoRedo
         /\ Len(redo_calls) = Len(UnitsYielded)
         /\ \A k \in DOMAIN redo_calls : redo_calls[k].st = "merged"

C4_Witness ==
    /\ cell = "search"
    /\ Len(redo_calls) >= 2
    /\ Len(add_calls) <= 1

\* C5: a call of process_streaming_batch for an empty micro-batch returns at
\* the count check, and that step makes no add_record call, prints nothing and
\* leaves affected_entities as it is.
C5_EmptyBatchNoEffect ==
    [][ (pc_b = "count" /\ pc_b' # "count" /\ Len(batch_df) = 0) =>
            /\ pc_b' = "idle"
            /\ UNCHANGED << affected_entities, add_calls, printed, returned,
                            redo_queue >> ]_vars

C5_Witness ==
    /\ Len(delivered) >= 2
    /\ Len(batch_df) = 0
    /\ pc_b = "idle"
    /\ affected_entities # {}
    /\ printed # << >>

\* C6: a process_redo_record call that failed is the last call of the redo
\* loop: the cell has ended with the exception, and from then on it makes no
\* get_redo_record and no process_redo_record call. Every call made, of
\* add_record or process_redo_record, starts awaiting its answer, and goes
\* from there to merged or to failed only; a call that is merged or failed
\* stays so.
C6_StateStep(old, new) ==
    /\ Len(new) >= Len(old)
    /\ \A k \in DOMAIN old :
         /\ new[k].arg = old[k].arg
         /\ old[k].st \in {"merged", "failed"} => new[k].st = old[k].st
         /\ new[k].st \in {"awaiting", "merged", "failed"}
    /\ \A k \in (DOMAIN new) \ (DOMAIN old) : new[k].st = "awaiting"

C6_RedoFailureIsFatal ==
    /\ [] ( \A k \in DOMAIN redo_calls :
              redo_calls[k].st = "failed" =>
                  k = Len(redo_calls) /\ cell = "raised" )
    /\ [][ /\ cell = "raised" => UNCHANGED << cell, gets, redo_calls >>
           /\ C6_StateStep(redo_calls, redo_calls')
           /\ C6_StateStep(add_calls, add_calls') ]_vars

C6_Witness ==
    /\ cell = "raised"
    /\ Len(redo_calls) >= 2
    /\ redo_calls[Len(redo_calls)].st = "failed"
    /\ redo_calls[1].st = "merged"

C9_DrainOnlyAfterIngestion ==
    [][ (gets' # gets \/ Len(redo_calls') > Len(redo_calls)) =>
            /\ streaming_query # "active"
            /\ pc_b \in {"idle", "raised"} ]_vars

\* C10: spark.stop() never takes place between an add_record call and the
\* merge of the identifiers of its answer.
C10_StopNotBetweenCallAndMerge ==
    [][ (spark = "running" /\ spark' = "stopped") =>
            pc_b \notin {"awaiting", "merge", "update"} ]_vars

====
